---- MODULE Spec2Model ----
(***************************************************************************)
(* A model of the browser-side presentation layer of nexus_neural_dao.     *)
(* The repository holds three variants of the same layer:                  *)
(*   "app"    src/app/static/scripts/app.js   (class FinancialApp, charts) *)
(*   "legacy" src/unnamed/part_000            (class FinancialApp, older)  *)
(*   "script" src/app/static/script.js        (top-level functions)        *)
(* A behaviour runs one variant, chosen in Init.  Handlers run to their    *)
(* next await in one step; the awaits of generateModel/handleQuerySubmit   *)
(* and of exportToExcel are the only places where other events interleave. *)
(***************************************************************************)
EXTENDS Integers, Sequences, FiniteSets, TLC

VARIABLES
    variant,        \* which of the three source files runs
    chartLib,       \* window.Chart is loaded (app.js:227)
    currentModel,   \* this.currentModel (app.js:4) / currentModelId (script.js:12)
    charts,         \* this.charts: slot -> handle or Null (app.js:5)
    live,           \* Chart widgets created and not destroyed, per slot
    destroyed,      \* destroy() calls seen by the Chart collaborator (saturating)
    resultsHidden,  \* #resultsSection is hidden
    modelIdText,    \* #modelId textContent
    timeHorizon,    \* #timeHorizon textContent
    totalRevenue,   \* #totalRevenue (app.js, part_000) / #finalRevenue (script.js)
    tableRows,      \* rows of the projections table body
    driversCards,   \* children of the drivers container
    assumptionCards,\* children of the assumptions container
    activeBtns,     \* tab buttons carrying class "active"
    activePanes,    \* tab panes carrying class "active"
    loadingHidden,  \* the loading indicator is hidden
    errorHidden,    \* no error banner is showing
    errorText,      \* #errorText textContent / the text of the last alert
    requests,       \* the search calls suspended at an await
    lastLog,        \* the events of the search call that returned last
    exports,        \* the export calls suspended at an await
    saved           \* the file the last export handed to the browser

viewVars == <<resultsHidden, modelIdText, timeHorizon, totalRevenue,
              tableRows, driversCards, assumptionCards>>
chartVars == <<charts, live, destroyed>>
tabVars == <<activeBtns, activePanes>>
envVars == <<variant, chartLib>>
exportVars == <<exports, saved>>
vars == <<variant, chartLib, currentModel, charts, live, destroyed,
          resultsHidden, modelIdText, timeHorizon, totalRevenue, tableRows,
          driversCards, assumptionCards, activeBtns, activePanes,
          loadingHidden, errorHidden, errorText, requests, lastLog,
          exports, saved>>

----------------------------------------------------------------------------
(* Bounds *)

\* search calls that may be suspended at the same time
MaxInFlight == 2
\* the count of destroy() calls saturates here
MaxDestroyed == 1
\* export calls that may be suspended at the same time
MaxExports == 1

----------------------------------------------------------------------------
(* JavaScript values *)

\* null, for an object-valued slot (a model, a chart handle) and an empty text
Null == <<>>
\* an absent or null numeric field, and the number NaN
Absent == 0 - 1
NaN == 0 - 2

Variants == {"app", "legacy", "script"}
Slots == {"revenueLine", "revenueBreakdown", "revenueMillion"}

\* obj.field of a JSON projection: absent fields read as undefined
Get(obj, field) == IF field \in DOMAIN obj THEN obj[field] ELSE Absent

\* x || 0 and x ?? 0 on a number or an absent/null field
OrZero(x) == IF x \in {Absent, NaN, 0} THEN 0 ELSE x
Nullish0(x) == IF x = Absent THEN 0 ELSE x

Range(s) == {s[i] : i \in DOMAIN s}
SeqMap(Op(_), s) == [i \in DOMAIN s |-> Op(s[i])]

----------------------------------------------------------------------------
(* Formatter *)

\* Intl.NumberFormat currency, no fraction digits: "$" and the grouped digits
formatCurrency(amount) ==
    IF amount \in {Absent, NaN} THEN <<"$", NaN>> ELSE <<"$", amount>>

\* Intl.NumberFormat / toLocaleString: the grouped digits
formatNumber(num) == <<"#", num>>

\* '_' -> ' ', then the first letter of every word in upper case
formatText(text) == <<"Title", text>>

----------------------------------------------------------------------------
(* Response bodies of GET /api/v1/search *)

Proj(m, sp, lc, sc, lr, sr) ==
    [month |-> m, sales_people |-> sp,
     large_customers_cumulative |-> lc, small_customers_cumulative |-> sc,
     large_customer_revenue |-> lr, small_customer_revenue |-> sr,
     total_revenue |-> lr + sr, marketing_spend |-> 200000]

Driver(n, v) == [name |-> n, type |-> "input", value |-> v, unit |-> "$"]

\* a model identifier: its first eight characters and the rest
ModelId(head, rest) == <<head, rest>>
\* id.substring(0, 8)
substring8(id) == id[1]

\* a mapping string -> number|string is a sequence of entries in iteration order
NumV(n) == [number |-> n]
StrV(t) == [string |-> t]
Assumption(k, v) == [key |-> k, value |-> v]

\* two projections; the assumptions under assumptions_used only
ModelA ==
    [model_id |-> ModelId("4f2a9c1e", "-a001"),
     monthly_projections |-> <<Proj(1, 2, 1, 4, 5000000, 345678),
                               Proj(2, 3, 2, 9, 12000000, 345678)>>,
     revenue_drivers |-> <<Driver("sales_people", 2)>>,
     assumptions_used |-> <<Assumption("initial_sales_people", NumV(2)),
                            Assumption("scenario", StrV("base case"))>>]

\* one projection; the body also carries the field "assumptions"
ModelB ==
    [model_id |-> ModelId("93d07b55", "-b002"),
     monthly_projections |-> <<Proj(1, 5, 0, 3, 0, 70000)>>,
     revenue_drivers |-> <<Driver("marketing_spend", 300000),
                           Driver("conversion_rate", 1)>>,
     assumptions_used |-> <<Assumption("initial_sales_people", NumV(5))>>,
     assumptions |-> <<Assumption("initial_sales_people", NumV(5))>>]

\* an empty horizon
ModelE ==
    [model_id |-> ModelId("e81c22f0", "-e003"),
     monthly_projections |-> <<>>,
     revenue_drivers |-> <<>>,
     assumptions_used |-> <<>>]

Models == {ModelA, ModelB, ModelE}

\* bodies whose one projection lacks some of its numeric quantities (absent
\* or null); the customer counts travel under both of the names the variants
\* read
FullProj ==
    [month |-> 1, sales_people |-> 2,
     large_customers_cumulative |-> 1, large_customers_acquired |-> 1,
     small_customers_cumulative |-> 4, small_customers_acquired |-> 4,
     large_customer_revenue |-> 5000000, small_customer_revenue |-> 345678,
     total_revenue |-> 5345678, marketing_spend |-> 200000]

Quantities ==
    {"sales_people", "large_customers", "small_customers",
     "large_customer_revenue", "small_customer_revenue", "total_revenue",
     "marketing_spend"}

fieldsOf(quantity) ==
    IF quantity \in {"large_customers", "small_customers"}
    THEN {quantity \o "_cumulative", quantity \o "_acquired"}
    ELSE {quantity}

PartialProj(dropped) ==
    [f \in DOMAIN FullProj \ UNION {fieldsOf(q) : q \in dropped} |-> FullProj[f]]

PartialModel(dropped) ==
    [model_id |-> ModelId("7c3e5a90", "-p004"),
     monthly_projections |-> <<PartialProj(dropped)>>,
     revenue_drivers |-> <<>>,
     assumptions_used |-> <<>>,
     assumptions |-> <<>>]

PartialModels == {PartialModel(dropped) : dropped \in SUBSET Quantities}

\* what the error payload of a non-success response decodes to
ErrorPayloads == {"detail", "nodetail", "unparsable"}
ServerDetail == "Query could not be interpreted"

\* contents of the query field when the user submits
Queries == {"", "  ", "q"}
trim(q) == IF q = "  " THEN "" ELSE q

----------------------------------------------------------------------------
(* The page: the DOM and chart state the handlers read and write.  The     *)
(* operators below take a page and give the page the code leaves behind.   *)

Page ==
    [resultsHidden |-> resultsHidden, modelIdText |-> modelIdText,
     timeHorizon |-> timeHorizon, totalRevenue |-> totalRevenue,
     tableRows |-> tableRows, driversCards |-> driversCards,
     assumptionCards |-> assumptionCards,
     charts |-> charts, live |-> live, destroyed |-> destroyed,
     activeBtns |-> activeBtns, activePanes |-> activePanes,
     loadingHidden |-> loadingHidden, errorHidden |-> errorHidden,
     errorText |-> errorText]

Commit(p) ==
    /\ resultsHidden' = p.resultsHidden
    /\ modelIdText' = p.modelIdText
    /\ timeHorizon' = p.timeHorizon
    /\ totalRevenue' = p.totalRevenue
    /\ tableRows' = p.tableRows
    /\ driversCards' = p.driversCards
    /\ assumptionCards' = p.assumptionCards
    /\ charts' = p.charts
    /\ live' = p.live
    /\ destroyed' = p.destroyed
    /\ activeBtns' = p.activeBtns
    /\ activePanes' = p.activePanes
    /\ loadingHidden' = p.loadingHidden
    /\ errorHidden' = p.errorHidden
    /\ errorText' = p.errorText

(* Messages *)
ValidationMsg == "Please describe your financial scenario"
GenericMsg(v) ==
    IF v = "script" THEN "Failed to generate model"
    ELSE "Failed to generate model. Please try again."
\* error.message of a rejected fetch, of a rejected response.json(), and of a
\* TypeError raised while rendering
NetworkMsg == "Failed to fetch"
ParserMsg == "Unexpected token < in JSON at position 0"
TypeErrorMsg == "Cannot read properties of undefined"
FailureMsgs == {GenericMsg("app"), GenericMsg("script"), ServerDetail,
                NetworkMsg, ParserMsg}

\* FinancialApp.showLoading(show)
showLoading(p, show) == [p EXCEPT !.loadingHidden = ~show]

\* FinancialApp.showError(message)
showError(p, message) ==
    [p EXCEPT !.errorText = <<message>>, !.errorHidden = FALSE]

\* faulty variant: the banner is left as it is
hideErrorSkipped(p) == p

\* FinancialApp.hideError(): part_000 and app.js agree
hideError(p) == [p EXCEPT !.errorHidden = TRUE]

\* script.js showLoading(): also hides the results section
scriptShowLoading(p) ==
    [p EXCEPT !.loadingHidden = FALSE, !.resultsHidden = TRUE]

\* script.js hideLoading()
scriptHideLoading(p) == [p EXCEPT !.loadingHidden = TRUE]

\* script.js showError(message): hideLoading(), then a modal alert, which
\* the user dismisses before any other event runs (no banner stays)
scriptShowError(p, message) ==
    [scriptHideLoading(p) EXCEPT !.errorText = <<"Error: ", message>>]

----------------------------------------------------------------------------
(* ResultRenderer *)

Placeholder(text) == <<[placeholder |-> text]>>

\* app.js displayProjectionsTable: one <tr> per projection
appRow(proj) ==
    [month |-> <<"Month", proj.month>>,
     sales_people |-> <<Get(proj, "sales_people"), "people">>,
     large_customers |-> formatNumber(Nullish0(Get(proj, "large_customers_cumulative"))),
     small_customers |-> formatNumber(Nullish0(Get(proj, "small_customers_cumulative"))),
     large_revenue |-> formatCurrency(OrZero(Get(proj, "large_customer_revenue"))),
     small_revenue |-> formatCurrency(OrZero(Get(proj, "small_customer_revenue"))),
     total_revenue |-> formatCurrency(OrZero(Get(proj, "total_revenue")))]

\* part_000 displayProjectionsTable: x?.toLocaleString() || '0'
legacyRow(proj) ==
    LET count(x) == IF x = Absent THEN formatNumber(0) ELSE formatNumber(x)
    IN  [month |-> <<"Month", proj.month>>,
         sales_people |-> <<Get(proj, "sales_people"), "people">>,
         large_customers |-> count(Get(proj, "large_customers_cumulative")),
         small_customers |-> count(Get(proj, "small_customers_cumulative")),
         large_revenue |-> formatCurrency(OrZero(Get(proj, "large_customer_revenue"))),
         small_revenue |-> formatCurrency(OrZero(Get(proj, "small_customer_revenue"))),
         total_revenue |-> formatCurrency(OrZero(Get(proj, "total_revenue")))]

\* script.js displayProjectionsTable: fields interpolated as they are
scriptRow(proj) ==
    [month |-> <<proj.month>>,
     sales_people |-> <<Get(proj, "sales_people")>>,
     large_customers |-> <<Get(proj, "large_customers_acquired")>>,
     large_revenue |-> formatCurrency(Get(proj, "large_customer_revenue")),
     small_customers |-> <<Get(proj, "small_customers_acquired")>>,
     small_revenue |-> formatCurrency(Get(proj, "small_customer_revenue")),
     marketing_spend |-> formatCurrency(Get(proj, "marketing_spend")),
     total_revenue |-> formatCurrency(Get(proj, "total_revenue"))]

displayProjectionsTable(v, projections) ==
    IF v = "app" THEN SeqMap(appRow, projections)
    ELSE IF v = "legacy" THEN SeqMap(legacyRow, projections)
    ELSE SeqMap(scriptRow, projections)

\* displayRevenueDrivers: a card per driver, or the placeholder paragraph
\* (script.js has no placeholder and upper-cases the name)
\* (app.js: driver.value ?? 'N/A'; part_000: driver.value || 'N/A')
driverCard(v, driver) ==
    [h4 |-> formatText(driver.name), type |-> driver.type,
     value |-> IF v = "legacy" /\ driver.value = 0 THEN StrV("N/A")
               ELSE NumV(driver.value),
     unit |-> driver.unit]
scriptDriverItem(driver) ==
    [h4 |-> <<"UPPER", driver.name>>,
     value |-> IF driver.unit = "$" THEN formatCurrency(driver.value)
               ELSE formatNumber(driver.value)]

displayRevenueDrivers(v, drivers) ==
    IF v = "script" THEN SeqMap(scriptDriverItem, drivers)
    ELSE IF Len(drivers) = 0 THEN Placeholder("No revenue drivers available")
    ELSE SeqMap(LAMBDA d : driverCard(v, d), drivers)

\* displayAssumptions of app.js and part_000: a card per key in iteration
\* order, numbers through formatNumber, other values verbatim
assumptionCard(entry) ==
    [h4 |-> formatText(entry.key),
     p |-> IF "number" \in DOMAIN entry.value
           THEN [text |-> formatNumber(entry.value.number)]
           ELSE [text |-> <<entry.value.string>>]]

displayAssumptions(assumptions) ==
    IF Len(assumptions) = 0 THEN Placeholder("No assumptions available")
    ELSE SeqMap(assumptionCard, assumptions)

\* script.js displayAssumptions: the seven key assumptions only
keyAssumptions ==
    {"initial_sales_people", "sales_people_growth_rate",
     "large_customer_revenue_monthly", "small_customer_revenue_monthly",
     "marketing_spend_monthly", "sales_inquiries_per_month", "conversion_rate"}

formatAssumptionValue(value, key) ==
    IF key \in {"large_customer_revenue_monthly", "small_customer_revenue_monthly",
                "marketing_spend_monthly"}
    THEN formatCurrency(value.number)
    ELSE IF key \in {"sales_people_growth_rate", "conversion_rate"}
    THEN <<"%", value.number * 100>>
    ELSE formatNumber(value.number)

scriptAssumptionItem(entry) ==
    [label |-> formatText(entry.key),
     value |-> formatAssumptionValue(entry.value, entry.key)]

scriptDisplayAssumptions(assumptions) ==
    SeqMap(scriptAssumptionItem,
           SelectSeq(assumptions, LAMBDA e : e.key \in keyAssumptions))

----------------------------------------------------------------------------
(* ChartCoordinator (app.js only) *)

Min(a, b) == IF a < b THEN a ELSE b

\* Math.round((v / 1000000) * 100) / 100, kept in hundredths of a million
toMillions(v) == (v + 5000) \div 10000

label(proj) == <<"M", proj.month>>
totalRev(proj) == OrZero(Get(proj, "total_revenue"))
largeRev(proj) == OrZero(Get(proj, "large_customer_revenue"))
smallRev(proj) == OrZero(Get(proj, "small_customer_revenue"))

\* the configuration data handed to new Chart(...) for each slot
chartData(slot, projections) ==
    IF slot = "revenueLine"
    THEN [labels |-> SeqMap(label, projections),
          data |-> SeqMap(totalRev, projections)]
    ELSE IF slot = "revenueBreakdown"
    THEN [labels |-> SeqMap(label, projections),
          large |-> SeqMap(largeRev, projections),
          small |-> SeqMap(smallRev, projections)]
    ELSE [labels |-> SeqMap(label, projections),
          data |-> SeqMap(LAMBDA q : toMillions(totalRev(q)), projections)]

\* the identity of a newly constructed widget: the first not in use in its slot
newWidgetId(widgets) ==
    CHOOSE n \in 1..(Cardinality(widgets) + 1) :
        /\ \A w \in widgets : w.id # n
        /\ \A m \in 1..(n - 1) : \E w \in widgets : w.id = m

\* chart.destroy() on the handle held in a slot
destroyChart(p, slot) ==
    [p EXCEPT !.live[slot] = @ \ {p.charts[slot]},
              !.destroyed = Min(@ + 1, MaxDestroyed)]

\* faulty variant: the handle is overwritten without destroy()
releaseSlotSkipped(p, slot) == p

\* if (this.charts.x) this.charts.x.destroy();
releaseSlot(p, slot) ==
    IF p.charts[slot] # Null THEN destroyChart(p, slot) ELSE p

\* one "if (el && window.Chart) { ... }" block of renderCharts
drawSlot(p, slot, projections) ==
    IF ~chartLib THEN p
    ELSE LET q == releaseSlot(p, slot)
             w == [id |-> newWidgetId(q.live[slot]),
                   data |-> chartData(slot, projections)]
         IN  [q EXCEPT !.charts[slot] = w, !.live[slot] = @ \cup {w}]

\* FinancialApp.renderCharts(projections)
renderCharts(p, projections) ==
    IF Len(projections) = 0 THEN p
    ELSE drawSlot(drawSlot(drawSlot(p, "revenueLine", projections),
                           "revenueBreakdown", projections),
                  "revenueMillion", projections)

----------------------------------------------------------------------------
(* TabController *)

\* the tab buttons (and panes) of the page of each variant
TabsOf(v) ==
    IF v = "app" THEN {"table", "drivers", "assumptions", "charts"}
    ELSE IF v = "legacy" THEN {"table", "drivers", "assumptions"}
    ELSE {}

\* faulty variant: the class is not removed from the other elements
deactivateNone(active) == active

\* faulty variant: entering the charts tab always draws the charts again
switchTabRedraws(p, tabName, model) ==
    LET q == [p EXCEPT !.activeBtns = (@ \ TabsOf(variant)) \cup {tabName},
                       !.activePanes = (@ \ TabsOf(variant)) \cup {tabName}]
    IN  IF variant = "app" /\ tabName = "charts" /\ model # Null
        THEN renderCharts(q, model.monthly_projections)
        ELSE q

\* querySelectorAll(...).forEach(el => el.classList.remove('active'))
deactivateAll(active) == active \ TabsOf(variant)

\* FinancialApp.switchTab(tabName); model is this.currentModel at the call
switchTab(p, tabName, model) ==
    LET q == [p EXCEPT !.activeBtns = deactivateAll(@) \cup {tabName},
                       !.activePanes = deactivateAll(@) \cup {tabName}]
    IN  IF variant = "app" /\ tabName = "charts" /\ model # Null
        THEN IF \E s \in Slots : q.charts[s] # Null
             THEN q    \* resize() on each handle held
             ELSE renderCharts(q, model.monthly_projections)
        ELSE q

----------------------------------------------------------------------------
(* displayResults: the page it leaves and whether it threw *)

lastOf(projections) == projections[Len(projections)]

\* faulty variant: the last projection is read without the guard for an empty
\* horizon, so the render stops with a TypeError after the header
appDisplayResultsUnguarded(p, data) ==
    IF Len(data.monthly_projections) = 0
    THEN [page |-> [p EXCEPT !.resultsHidden = FALSE,
                             !.modelIdText = data.model_id,
                             !.timeHorizon = <<0, "months">>],
          threw |-> TRUE]
    ELSE [page |-> switchTab(renderCharts(
                      [p EXCEPT
                        !.resultsHidden = FALSE,
                        !.modelIdText = data.model_id,
                        !.timeHorizon = <<Len(data.monthly_projections), "months">>,
                        !.totalRevenue = formatCurrency(
                            OrZero(Get(lastOf(data.monthly_projections), "total_revenue"))),
                        !.tableRows = displayProjectionsTable("app", data.monthly_projections),
                        !.driversCards = displayRevenueDrivers("app", data.revenue_drivers),
                        !.assumptionCards =
                            displayAssumptions(IF "assumptions" \in DOMAIN data
                                               THEN data.assumptions ELSE <<>>)],
                      data.monthly_projections), "charts", data),
          threw |-> FALSE]

\* app.js displayResults(data)
appDisplayResults(p, data) ==
    LET months == Len(data.monthly_projections)
        total == IF months = 0 THEN 0
                 ELSE OrZero(Get(lastOf(data.monthly_projections), "total_revenue"))
        shown == [p EXCEPT
                    !.resultsHidden = FALSE,
                    !.modelIdText = data.model_id,
                    !.timeHorizon = <<months, "months">>,
                    !.totalRevenue = formatCurrency(total),
                    !.tableRows = displayProjectionsTable("app", data.monthly_projections),
                    !.driversCards = displayRevenueDrivers("app", data.revenue_drivers),
                    !.assumptionCards =
                        displayAssumptions(IF "assumptions" \in DOMAIN data
                                           THEN data.assumptions ELSE <<>>)]
    IN  [page |-> switchTab(renderCharts(shown, data.monthly_projections),
                            "charts", data),
         threw |-> FALSE]

\* part_000 displayResults(data)
legacyDisplayResults(p, data) ==
    LET months == Len(data.monthly_projections)
        total == IF months = 0 THEN 0
                 ELSE Get(lastOf(data.monthly_projections), "total_revenue")
    IN  [page |-> [p EXCEPT
                    !.resultsHidden = FALSE,
                    !.modelIdText = data.model_id,
                    !.timeHorizon = <<months, "months">>,
                    !.totalRevenue = formatCurrency(total),
                    !.tableRows = displayProjectionsTable("legacy", data.monthly_projections),
                    !.driversCards = displayRevenueDrivers("legacy", data.revenue_drivers),
                    !.assumptionCards = displayAssumptions(data.assumptions_used)],
         threw |-> FALSE]

\* script.js displayResults(data): reading firstMonth.total_revenue of an empty
\* horizon, or assumptions[key] of an absent mapping, raises a TypeError
scriptDisplayResults(p, data) ==
    LET months == Len(data.monthly_projections)
        head == [scriptHideLoading(p) EXCEPT
                    !.modelIdText = <<substring8(data.model_id), "...">>,
                    !.timeHorizon = <<months, "months">>]
        body == [head EXCEPT
                    !.totalRevenue =
                        formatCurrency(Get(lastOf(data.monthly_projections), "total_revenue")),
                    !.driversCards = displayRevenueDrivers("script", data.revenue_drivers),
                    !.tableRows = displayProjectionsTable("script", data.monthly_projections)]
    IN  IF months = 0 THEN [page |-> head, threw |-> TRUE]
        ELSE IF "assumptions" \notin DOMAIN data
        THEN [page |-> [body EXCEPT !.assumptionCards = <<>>], threw |-> TRUE]
        ELSE [page |-> [body EXCEPT
                          !.assumptionCards = scriptDisplayAssumptions(data.assumptions),
                          !.resultsHidden = FALSE],
              threw |-> FALSE]

displayResults(p, data) ==
    IF variant = "app" THEN appDisplayResults(p, data)
    ELSE IF variant = "legacy" THEN legacyDisplayResults(p, data)
    ELSE scriptDisplayResults(p, data)

----------------------------------------------------------------------------
(* RequestController *)

\* a search call suspended at an await: where it waits, what it has done, and
\* (history kept under ResetSpec, read by no handler) whether the page was
\* reset since the call was submitted
Request(pc, log) == [pc |-> pc, log |-> log, resetSeen |-> FALSE]

\* requests maps each of the MaxInFlight places to the call it holds, or Idle
Idle == Null
Awaiting(i, pc) == requests[i] # Idle /\ requests[i].pc = pc
NoneInFlight == \A i \in DOMAIN requests : requests[i] = Idle

\* a place for a new call
freeId == CHOOSE n \in DOMAIN requests :
              /\ requests[n] = Idle
              /\ \A m \in 1..(n - 1) : requests[m] # Idle

\* a reset runs while calls are in flight: the calls go on unchanged
outliveReset(calls) ==
    [i \in DOMAIN calls |->
        IF calls[i] = Idle THEN Idle ELSE [calls[i] EXCEPT !.resetSeen = TRUE]]

\* call i returns: its place is given up and its events are kept
Return(i, events) ==
    /\ requests' = [requests EXCEPT ![i] = Idle]
    /\ lastLog' = requests[i].log \o events

\* faulty variant: the finally clause is missing: the catch alone
catchWithoutFinally(p, message) ==
    IF variant = "script" THEN scriptShowError(p, message)
    ELSE showError(p, message)

\* catch (error) { showError(error.message) } finally { showLoading(false) }
\* (script.js: catch { showError(error.message) }, which hides the loader)
catchAndFinally(p, message) ==
    IF variant = "script" THEN scriptShowError(p, message)
    ELSE showLoading(showError(p, message), FALSE)

failureEvents ==
    IF variant = "script" THEN <<"clear", "error">> ELSE <<"error", "clear">>

\* the page as loaded: nothing fetched, results hidden, the first tab ("table")
\* marked active in the markup of the two tabbed variants
Init ==
    /\ variant \in Variants
    /\ chartLib \in (IF variant = "app" THEN BOOLEAN ELSE {FALSE})
    /\ currentModel = Null
    /\ charts = [s \in Slots |-> Null]
    /\ live = [s \in Slots |-> {}]
    /\ destroyed = 0
    /\ resultsHidden = TRUE
    /\ modelIdText = Null
    /\ timeHorizon = Null
    /\ totalRevenue = Null
    /\ tableRows = <<>>
    /\ driversCards = <<>>
    /\ assumptionCards = <<>>
    /\ activeBtns = (IF variant = "script" THEN {} ELSE {"table"})
    /\ activePanes = (IF variant = "script" THEN {} ELSE {"table"})
    /\ loadingHidden = TRUE
    /\ errorHidden = TRUE
    /\ errorText = Null
    /\ requests = [i \in 1..MaxInFlight |-> Idle]
    /\ lastLog = <<>>
    /\ exports = [i \in 1..MaxExports |-> Idle]
    /\ saved = Null

\* FinancialApp.generateModel() up to its first await (app.js, part_000);
\* query is the content of #queryInput when the handler runs
GenerateModel(query) ==
    /\ variant \in {"app", "legacy"}
    /\ IF trim(query) = ""
       THEN /\ Commit(showError(Page, ValidationMsg))
            /\ UNCHANGED <<requests, lastLog>>
       ELSE /\ ~\A i \in DOMAIN requests : requests[i] # Idle
            /\ Commit(hideError(showLoading(Page, TRUE)))
            /\ requests' = [requests EXCEPT
                              ![freeId] = Request("fetch", <<"loading", "fetch">>)]
            /\ UNCHANGED lastLog
    /\ UNCHANGED <<envVars, exportVars, currentModel>>

\* script.js handleQuerySubmit(e) up to its await: no check of the query
HandleQuerySubmit(query) ==
    /\ variant = "script"
    /\ ~\A i \in DOMAIN requests : requests[i] # Idle
    /\ Commit(scriptShowLoading(Page))
    /\ requests' = [requests EXCEPT
                      ![freeId] = Request("fetch", <<"loading", "fetch">>)]
    /\ UNCHANGED <<envVars, exportVars, currentModel, lastLog>>

\* fetch() rejects: a failure at the network layer
FetchRejected(i) ==
    /\ Awaiting(i, "fetch")
    /\ Commit(catchAndFinally(Page, NetworkMsg))
    /\ Return(i, failureEvents)
    /\ UNCHANGED <<envVars, exportVars, currentModel>>

\* fetch() resolves with a response; the call goes on to await response.json()
FetchResolved(i, ok) ==
    /\ Awaiting(i, "fetch")
    /\ requests' = [requests EXCEPT ![i].pc = IF ok THEN "json" ELSE "errjson"]
    /\ UNCHANGED <<envVars, exportVars, currentModel, viewVars, chartVars, tabVars,
                   loadingHidden, errorHidden, errorText, lastLog>>

\* the message thrown for a non-success response whose payload decoded as given
\* app.js: try { detail = err.detail || detail } catch {}; the others await
\* response.json() unguarded, so its rejection is what the catch receives
errorMessage(payload) ==
    IF payload = "detail" THEN ServerDetail
    ELSE IF payload = "nodetail" THEN GenericMsg(variant)
    ELSE IF variant = "app" THEN GenericMsg(variant)
    ELSE ParserMsg

\* the await of the error payload of a non-success response ends
ErrorBodyDecoded(i, payload) ==
    /\ Awaiting(i, "errjson")
    /\ Commit(catchAndFinally(Page, errorMessage(payload)))
    /\ Return(i, failureEvents)
    /\ UNCHANGED <<envVars, exportVars, currentModel>>

\* response.json() of a success response rejects: the body is not JSON
BodyUnparsable(i) ==
    /\ Awaiting(i, "json")
    /\ Commit(catchAndFinally(Page, ParserMsg))
    /\ Return(i, failureEvents)
    /\ UNCHANGED <<envVars, exportVars, currentModel>>

\* faulty variant: a model already held is kept: the first response wins
heldFirstWins(data) ==
    IF currentModel # Null THEN currentModel
    ELSE IF variant = "script" THEN [model_id |-> data.model_id] ELSE data

\* what the variant keeps of a decoded body: the object, or its model_id
held(data) ==
    IF variant = "script" THEN [model_id |-> data.model_id] ELSE data

\* response.json() of a success response resolves with data:
\*   this.currentModel = data; this.displayResults(data); ... finally
BodyDecoded(i, data) ==
    /\ Awaiting(i, "json")
    /\ currentModel' = held(data)
    /\ LET r == displayResults(Page, data)
       IN  IF variant = "script"
           THEN IF r.threw
                THEN /\ Commit(scriptShowError(r.page, TypeErrorMsg))
                     /\ Return(i, <<"clear", "render", "clear", "error">>)
                ELSE /\ Commit(r.page)
                     /\ Return(i, <<"clear", "render">>)
           ELSE IF r.threw
                THEN /\ Commit(showLoading(showError(r.page, TypeErrorMsg), FALSE))
                     /\ Return(i, <<"render", "error", "clear">>)
                ELSE /\ Commit(showLoading(r.page, FALSE))
                     /\ Return(i, <<"render", "clear">>)
    /\ UNCHANGED <<envVars, exportVars>>

\* a click on a tab button
TabClick(tabName) ==
    /\ tabName \in TabsOf(variant)
    /\ Commit(switchTab(Page, tabName, currentModel))
    /\ UNCHANGED <<envVars, exportVars, currentModel, requests, lastLog>>

\* the Chart library, a script of its own, finishes loading: window.Chart is
\* read anew by every renderCharts call
ChartLoaded ==
    /\ variant = "app"
    /\ ~chartLib
    /\ chartLib' = TRUE
    /\ UNCHANGED <<variant, currentModel, viewVars, chartVars, tabVars,
                   loadingHidden, errorHidden, errorText, requests, lastLog,
                   exportVars>>

\* FinancialApp.resetUI(): app.js hides the error banner, part_000 does not
ResetUI ==
    /\ variant \in {"app", "legacy"}
    /\ currentModel' = Null
    /\ Commit(LET p == [Page EXCEPT !.resultsHidden = TRUE]
              IN  IF variant = "app" THEN hideError(p) ELSE p)
    /\ UNCHANGED <<envVars, exportVars, requests, lastLog>>

\* FinancialApp.resetUI() again, with the calls in flight marked as having
\* outlived a reset
ResetUIObserved ==
    /\ variant \in {"app", "legacy"}
    /\ currentModel' = Null
    /\ Commit(LET p == [Page EXCEPT !.resultsHidden = TRUE]
              IN  IF variant = "app" THEN hideError(p) ELSE p)
    /\ requests' = outliveReset(requests)
    /\ UNCHANGED <<envVars, exportVars, lastLog>>

\* script.js handleNewModel(): currentModelId is left as it is
HandleNewModel ==
    /\ variant = "script"
    /\ Commit([Page EXCEPT !.resultsHidden = TRUE])
    /\ UNCHANGED <<envVars, exportVars, currentModel, requests, lastLog>>

----------------------------------------------------------------------------
(* Export *)

ExportFailedMsg == "Failed to export Excel file"
NoModelMsg == "No model to export"
\* error.message of the TypeError raised by this.currentModel.model_id when
\* this.currentModel is null
NullModelMsg == "Cannot read properties of null"

Exporting(i, pc) == exports[i] # Idle /\ exports[i].pc = pc
NoExportInFlight == \A i \in DOMAIN exports : exports[i] = Idle

freeExport == CHOOSE n \in DOMAIN exports :
                  /\ exports[n] = Idle
                  /\ \A m \in 1..(n - 1) : exports[m] # Idle

\* the file a.click() hands to the browser: a.download and the blob behind a.href
Download(name, blob) == [name |-> <<"financial_model_", name, ".xlsx">>, blob |-> blob]

\* faulty variant: the finally clause of exportToExcel is missing
exportCatchOnly(p, message) == showError(p, message)

\* catch (error) { showError(error.message) } finally { showLoading(false) }
exportCatchAndFinally(p, message) == showLoading(showError(p, message), FALSE)

\* FinancialApp.exportToExcel() up to its first await; without a model it
\* returns at once
ExportToExcel ==
    /\ variant \in {"app", "legacy"}
    /\ IF currentModel = Null
       THEN UNCHANGED <<loadingHidden, exports>>
       ELSE /\ ~\A i \in DOMAIN exports : exports[i] # Idle
            /\ loadingHidden' = FALSE
            /\ exports' = [exports EXCEPT
                             ![freeExport] = [pc |-> "fetch",
                                              key |-> currentModel.model_id]]
    /\ UNCHANGED <<envVars, currentModel, viewVars, chartVars, tabVars,
                   errorHidden, errorText, requests, lastLog, saved>>

\* the export call i returns through its catch with the message
ExportFails(i, message) ==
    /\ Commit(exportCatchAndFinally(Page, message))
    /\ exports' = [exports EXCEPT ![i] = Idle]
    /\ UNCHANGED <<envVars, currentModel, requests, lastLog, saved>>

\* fetch() of the export rejects
ExportFetchRejected(i) ==
    /\ Exporting(i, "fetch")
    /\ ExportFails(i, NetworkMsg)

\* fetch() of the export resolves: a non-success response throws at once, a
\* success response is read with await response.blob()
ExportFetchResolved(i, ok) ==
    /\ Exporting(i, "fetch")
    /\ IF ok
       THEN /\ exports' = [exports EXCEPT ![i].pc = "blob"]
            /\ UNCHANGED <<envVars, currentModel, viewVars, chartVars, tabVars,
                           loadingHidden, errorHidden, errorText, requests,
                           lastLog, saved>>
       ELSE ExportFails(i, ExportFailedMsg)

\* response.blob() rejects
ExportBlobRejected(i) ==
    /\ Exporting(i, "blob")
    /\ ExportFails(i, NetworkMsg)

\* response.blob() resolves: the file is named after this.currentModel as it
\* is now and holds the artifact that was requested; showSuccess adds a
\* notice that removes itself
ExportBlobResolved(i) ==
    /\ Exporting(i, "blob")
    /\ IF currentModel = Null
       THEN ExportFails(i, NullModelMsg)
       ELSE /\ saved' = Download(currentModel.model_id, exports[i].key)
            /\ Commit(showLoading(Page, FALSE))
            /\ exports' = [exports EXCEPT ![i] = Idle]
            /\ UNCHANGED <<envVars, currentModel, requests, lastLog>>

\* script.js handleExport(): no await; the artifact is opened in a new tab
HandleExport ==
    /\ variant = "script"
    /\ IF currentModel = Null
       THEN /\ Commit(scriptShowError(Page, NoModelMsg))
            /\ UNCHANGED saved
       ELSE /\ saved' = [opened |-> currentModel.model_id]
            /\ UNCHANGED <<viewVars, chartVars, tabVars, loadingHidden,
                           errorHidden, errorText>>
    /\ UNCHANGED <<envVars, currentModel, requests, lastLog, exports>>

ExportNext ==
    \/ ExportToExcel
    \/ \E i \in 1..MaxExports : ExportFetchRejected(i)
    \/ \E i \in 1..MaxExports, ok \in BOOLEAN : ExportFetchResolved(i, ok)
    \/ \E i \in 1..MaxExports : ExportBlobRejected(i)
    \/ \E i \in 1..MaxExports : ExportBlobResolved(i)
    \/ HandleExport

----------------------------------------------------------------------------
\* the search form: a submission and the continuations of the calls in flight
CallNext ==
    \/ \E query \in Queries : GenerateModel(query)
    \/ \E query \in Queries : HandleQuerySubmit(query)
    \/ \E i \in 1..MaxInFlight : FetchRejected(i)
    \/ \E i \in 1..MaxInFlight, ok \in BOOLEAN : FetchResolved(i, ok)
    \/ \E i \in 1..MaxInFlight, payload \in ErrorPayloads : ErrorBodyDecoded(i, payload)
    \/ \E i \in 1..MaxInFlight : BodyUnparsable(i)
    \/ \E i \in 1..MaxInFlight, data \in Models : BodyDecoded(i, data)

\* the search form and the reset button
SearchNext ==
    \/ CallNext
    \/ ResetUI
    \/ HandleNewModel

Next ==
    \/ SearchNext
    \/ \E tabName \in {"table", "drivers", "assumptions", "charts"} : TabClick(tabName)
    \/ ChartLoaded

Spec == Init /\ [][Next]_vars

\* every pending promise settles and the event loop then runs the continuation
\* of the call that awaits it
Progress(id) ==
    \/ FetchRejected(id)
    \/ \E ok \in BOOLEAN : FetchResolved(id, ok)
    \/ \E payload \in ErrorPayloads : ErrorBodyDecoded(id, payload)
    \/ BodyUnparsable(id)
    \/ \E data \in Models : BodyDecoded(id, data)

FairSpec == Spec /\ \A id \in 1..MaxInFlight : WF_vars(Progress(id))

\* searches that are answered with a body whose projection is partial
RenderNext ==
    \/ \E query \in Queries : GenerateModel(query)
    \/ \E query \in Queries : HandleQuerySubmit(query)
    \/ \E i \in 1..MaxInFlight : FetchResolved(i, TRUE)
    \/ \E i \in 1..MaxInFlight, data \in PartialModels : BodyDecoded(i, data)

RenderSpec == Init /\ [][RenderNext]_vars

\* the search form and the reset button in use, every reset leaving its mark
\* on the calls it finds in flight
ResetSpec == Init /\ [][CallNext \/ ResetUIObserved \/ HandleNewModel]_vars

\* the search form, the reset button and the export button in use; the tab
\* buttons and the load of the Chart library, which touch neither the held
\* model, the loading indicator, the error banner nor an export, are left out
ExportSpec == Init /\ [][SearchNext \/ ExportNext]_vars

----------------------------------------------------------------------------
(* Steps and observations the properties are stated with *)

\* a search call passes validation and reaches its fetch
SubmitStep ==
    \E query \in Queries :
        \/ GenerateModel(query) /\ requests' # requests
        \/ HandleQuerySubmit(query)

\* a search call fails: transport failure, non-success response, or a
\* failure while decoding the response
FailedSearchStep ==
    \E i \in 1..MaxInFlight :
        \/ FetchRejected(i)
        \/ \E payload \in ErrorPayloads : ErrorBodyDecoded(i, payload)
        \/ BodyUnparsable(i)

\* a step of a search call that is neither its first nor its last
ResponseStep == \E i \in 1..MaxInFlight, ok \in BOOLEAN : FetchResolved(i, ok)

\* call i gets data and ends on its success path
SuccessStep(i, data) == BodyDecoded(i, data) /\ "error" \notin Range(lastLog')

InFlight(id) == requests[id] # Idle

\* a call returns
ReturnStep == \E i \in DOMAIN requests : requests[i] # Idle /\ requests'[i] = Idle

SuccessLog == <<"loading", "fetch", "render", "clear">>
ErrorLog == <<"loading", "fetch", "error", "clear">>

\* the last cell text of a rendered cell
cellValue(cell) == cell[Len(cell)]

\* the results section is visible and its header and table are those of data
ShowsResultsOf(data) ==
    /\ ~resultsHidden
    /\ modelIdText # Null
    /\ modelIdText[1] = data.model_id[1]
    /\ variant # "script" => modelIdText = data.model_id
    /\ timeHorizon = <<Len(data.monthly_projections), "months">>
    /\ Len(tableRows) = Len(data.monthly_projections)
    /\ \A k \in DOMAIN tableRows :
          /\ cellValue(tableRows[k].month) = data.monthly_projections[k].month
          /\ cellValue(tableRows[k].total_revenue)
                = data.monthly_projections[k].total_revenue

----------------------------------------------------------------------------
(* C1 *)

\* C1: when a model is held and displayed, a search call that fails leaves
\* the held model and its rendered results as they were at the call, shows
\* the error message and clears loading: neither the step that submits the
\* call, nor the arrival of its response, nor its failure changes the held
\* model or the results shown.
C1_FailedSearchKeepsModel ==
    [][(currentModel # Null /\ ~resultsHidden) =>
          /\ (SubmitStep \/ ResponseStep \/ FailedSearchStep) =>
                /\ currentModel' = currentModel
                /\ UNCHANGED viewVars
          /\ FailedSearchStep =>
                /\ loadingHidden'
                /\ errorText' # Null
                /\ errorText'[Len(errorText')] \in FailureMsgs
                /\ variant # "script" => ~errorHidden']_vars

----------------------------------------------------------------------------
(* C2 *)

\* C2: every search call that passes validation eventually returns, and the
\* state it returns in has the loading flag cleared, whether it ends in
\* success, a network failure, a non-success response or a body that fails
\* to parse.
C2_LoadingEventuallyCleared ==
    /\ \A id \in 1..MaxInFlight :
          InFlight(id) ~> (~InFlight(id) /\ loadingHidden)
    /\ [][ReturnStep => loadingHidden']_vars

\* a call has returned on its error path and the loading flag is cleared
C2_Witness ==
    /\ NoneInFlight
    /\ "error" \in Range(lastLog)
    /\ loadingHidden

----------------------------------------------------------------------------
(* C3 *)

\* C3: in app.js the events of every submitted query are, in this order:
\* loading set, network call, exactly one of {render of the new model,
\* error message}, loading cleared; the clear is the last one.  A call that
\* renders leaves the error banner alone, a call that shows the error leaves
\* the rendered results alone.
C3_RequestEventOrder ==
    /\ [](variant = "app" =>
            /\ \A i \in DOMAIN requests :
                  requests[i] # Idle => requests[i].log = <<"loading", "fetch">>
            /\ lastLog \in {<<>>, SuccessLog, ErrorLog})
    /\ [][variant = "app" =>
            /\ SubmitStep => ~loadingHidden'
            /\ \A i \in 1..MaxInFlight, data \in Models :
                  BodyDecoded(i, data) =>
                     /\ ShowsResultsOf(data)'
                     /\ UNCHANGED <<errorHidden, errorText>>
                     /\ loadingHidden'
            /\ FailedSearchStep =>
                  /\ ~errorHidden'
                  /\ UNCHANGED <<currentModel, viewVars, chartVars, tabVars>>
                  /\ loadingHidden']_vars

\* a call of app.js has returned after rendering its model
C3_Witness ==
    /\ variant = "app"
    /\ lastLog = SuccessLog
    /\ currentModel # Null
    /\ ShowsResultsOf(currentModel)

----------------------------------------------------------------------------
(* C4 *)

\* C4: a submission whose query is empty after trimming makes no network
\* call, does not set the loading flag, leaves the held model unchanged and
\* shows the local validation error.
C4_EmptyQueryFailsFast ==
    [][\A query \in Queries :
          (trim(query) = "" /\ (GenerateModel(query) \/ HandleQuerySubmit(query))) =>
              /\ requests' = requests
              /\ loadingHidden' = loadingHidden
              /\ currentModel' = currentModel
              /\ errorText' = <<ValidationMsg>>]_vars

----------------------------------------------------------------------------
(* C5 *)

\* C5: each chart slot holds at most one live widget, and a live widget is
\* always the current handle of its slot.
C5_OneLiveWidgetPerSlot ==
    \A slot \in Slots :
        /\ Cardinality(live[slot]) <= 1
        /\ live[slot] = (IF charts[slot] = Null THEN {} ELSE {charts[slot]})

\* widgets were destroyed and every slot holds the one drawn in its place
C5_Witness ==
    /\ destroyed >= 1
    /\ \A slot \in Slots : charts[slot] # Null /\ live[slot] = {charts[slot]}

----------------------------------------------------------------------------
(* C6 *)

\* C6: the completions of calls in flight are independent: whichever call
\* gets its data and ends on its success path, whenever it was submitted
\* and whatever other calls returned before it, sets the held model and the
\* rendered results to that data; no response is cancelled or discarded.
C6_LastResolvedWins ==
    [][\A i \in 1..MaxInFlight, data \in Models :
          SuccessStep(i, data) =>
             /\ currentModel' # Null
             /\ currentModel'.model_id = data.model_id
             /\ variant # "script" => currentModel' = data
             /\ ShowsResultsOf(data)']_vars

\* two calls were in flight at once: one has returned with ModelB, which
\* is held and shown, after the other was submitted (the loader it showed is
\* hidden already), and that other call has its response and awaits the body
C6_Witness ==
    /\ Awaiting(1, "json")
    /\ \A i \in DOMAIN requests : i # 1 => requests[i] = Idle
    /\ loadingHidden
    /\ lastLog # <<>>
    /\ "error" \notin Range(lastLog)
    /\ currentModel # Null
    /\ currentModel.model_id = ModelB.model_id
    /\ ShowsResultsOf(ModelB)

----------------------------------------------------------------------------
(* C7 *)

\* C7 (as claimed): a successful fetch replaces the held model entirely,
\* clears any error that is showing and leaves the active tab as it was.
C7_SetModelAsClaimed ==
    [][\A i \in 1..MaxInFlight, data \in Models :
          (variant # "script" /\ SuccessStep(i, data)) =>
              /\ currentModel' = data
              /\ errorHidden'
              /\ UNCHANGED tabVars]_vars

\* C7 (amended): a successful fetch replaces the held model entirely; in
\* app.js it makes charts the active tab, in part_000 it leaves the active
\* tab as it was; it leaves the error banner as it is, the banner being
\* hidden when the query is submitted.
C7_SetModelAmended ==
    /\ [][\A i \in 1..MaxInFlight, data \in Models :
            (variant # "script" /\ SuccessStep(i, data)) =>
                /\ currentModel' = data
                /\ UNCHANGED <<errorHidden, errorText>>
                /\ variant = "app" =>
                      activeBtns' = {"charts"} /\ activePanes' = {"charts"}
                /\ variant = "legacy" => UNCHANGED tabVars]_vars
    /\ [][(variant # "script" /\ SubmitStep) => errorHidden']_vars

\* app.js: the call that returned last succeeded, charts is the active tab
\* and the error of a call that failed before it is still showing
C7_Witness ==
    /\ variant = "app"
    /\ NoneInFlight
    /\ lastLog = SuccessLog
    /\ currentModel # Null
    /\ activePanes = {"charts"}
    /\ ~errorHidden
    /\ errorText = <<NetworkMsg>>

----------------------------------------------------------------------------
(* C8 *)

\* C8: reset (resetUI / handleNewModel) leaves no model held, no error
\* showing, the initial tab active and loading cleared.
C8_ResetClearsStore ==
    [][(ResetUI \/ HandleNewModel) =>
          /\ currentModel' = Null
          /\ errorHidden'
          /\ loadingHidden'
          /\ variant # "script" =>
                activeBtns' = {"table"} /\ activePanes' = {"table"}]_vars

----------------------------------------------------------------------------
(* C9 *)

\* C9: in app.js and part_000 exactly one tab button and exactly one pane
\* are active, both for the same tab; a tab click makes the clicked tab the
\* active one, also when it is active already.
C9_ExactlyOneActiveTab ==
    /\ [](variant # "script" =>
            /\ Cardinality(activeBtns) = 1
            /\ Cardinality(activePanes) = 1
            /\ activeBtns = activePanes)
    /\ [][\A tabName \in TabsOf(variant) :
            TabClick(tabName) =>
                activeBtns' = {tabName} /\ activePanes' = {tabName}]_vars

\* a tab other than the initial one, and other than the one displayResults
\* selects, is the active one
C9_Witness ==
    /\ variant # "script"
    /\ activeBtns = {"drivers"}
    /\ activePanes = {"drivers"}
    /\ currentModel # Null

----------------------------------------------------------------------------
(* C10 *)

\* the data a widget of the slot shows is that of the projections
ChartShows(slot, widget, projections) ==
    /\ Len(widget.data.labels) = Len(projections)
    /\ \A k \in DOMAIN projections :
          /\ widget.data.labels[k] = <<"M", projections[k].month>>
          /\ slot = "revenueLine" =>
                widget.data.data[k] = projections[k].total_revenue

\* C10: in app.js, while a model is held and its results are shown, the
\* header and table are those of the held model and every live chart widget
\* shows the projections of the held model.
C10_NoStaleView ==
    (variant = "app" /\ currentModel # Null /\ ~resultsHidden) =>
        /\ ShowsResultsOf(currentModel)
        /\ \A slot \in Slots : \A w \in live[slot] :
              ChartShows(slot, w, currentModel.monthly_projections)

----------------------------------------------------------------------------
(* C11 *)

HasWidget == \E slot \in Slots : charts[slot] # Null

\* C11: in app.js, entering the charts tab while a model is held and no
\* slot holds a widget draws the charts from the held model's projections
\* (nothing is drawn for an empty horizon or while the Chart library is not
\* loaded); entering it while a widget is held destroys and creates nothing.
C11_ChartsTabRendersOrResizes ==
    [][(variant = "app" /\ TabClick("charts") /\ currentModel # Null) =>
          IF HasWidget
          THEN UNCHANGED chartVars
          ELSE IF chartLib /\ Len(currentModel.monthly_projections) > 0
          THEN /\ destroyed' = destroyed
               /\ \A slot \in Slots :
                     /\ charts'[slot] # Null
                     /\ live'[slot] = {charts'[slot]}
                     /\ charts'[slot].data =
                           chartData(slot, currentModel.monthly_projections)
          ELSE UNCHANGED chartVars]_vars

\* the library loaded after ModelA was rendered without charts, and entering
\* the charts tab has drawn them: nothing was ever destroyed
C11_Witness ==
    /\ variant = "app"
    /\ chartLib
    /\ currentModel = ModelA
    /\ activePanes = {"charts"}
    /\ destroyed = 0
    /\ \A slot \in Slots :
          /\ charts[slot] # Null
          /\ ChartShows(slot, charts[slot], ModelA.monthly_projections)
    /\ \A slot \in Slots : live[slot] = {charts[slot]}

----------------------------------------------------------------------------
(* C12 *)

\* an export call fails: transport failure, non-success response, or a
\* failure while reading the blob
ExportFailureStep ==
    \E i \in 1..MaxExports :
        \/ ExportFetchRejected(i)
        \/ ExportFetchResolved(i, FALSE)
        \/ ExportBlobRejected(i)

\* C12: exportToExcel (app.js, part_000) requests the artifact keyed by the
\* id of the held model and, when the blob arrives, saves it under the name
\* financial_model_{id}.xlsx with the id that was requested, whatever search
\* or reset ran meanwhile; a failed export shows an error and saves no file,
\* and for a non-success response the error is the generic export message.
C12_ExportSavesRequestedModel ==
    [][/\ (ExportToExcel /\ currentModel # Null) =>
             \E i \in 1..MaxExports :
                 /\ exports[i] = Idle
                 /\ exports'[i] = [pc |-> "fetch", key |-> currentModel.model_id]
       /\ \A i \in 1..MaxExports :
             ExportBlobResolved(i) =>
                 saved' = Download(exports[i].key, exports[i].key)
       /\ ExportFailureStep => (~errorHidden' /\ saved' = saved)
       /\ \A i \in 1..MaxExports :
             ExportFetchResolved(i, FALSE) => errorText' = <<ExportFailedMsg>>]_vars

----------------------------------------------------------------------------
(* C13 *)

\* the message of the error that is showing: the banner's text, or the text
\* of the alert after its "Error: " prefix
shownMessage == errorText[Len(errorText)]

\* C13: on a non-success search response the error shown is the payload's
\* detail when the payload parses and has one, and the generic failure
\* message when it parses without a detail or does not parse (never the
\* parser's own error text).
C13_ErrorDetailOrGeneric ==
    [][\A i \in 1..MaxInFlight, payload \in ErrorPayloads :
          ErrorBodyDecoded(i, payload) =>
              /\ variant # "script" => ~errorHidden'
              /\ shownMessage' = (IF payload = "detail" THEN ServerDetail
                                  ELSE GenericMsg(variant))]_vars

----------------------------------------------------------------------------
(* C14 *)

SteadyState == NoneInFlight /\ NoExportInFlight

\* C14: whenever no search call and no export call is in flight the loading
\* indicator is hidden, so in steady state the indicator and an error
\* message are never showing together.
C14_SteadyStateNotLoading ==
    SteadyState =>
        /\ loadingHidden
        /\ ~(~loadingHidden /\ ~errorHidden /\ errorText # Null)

\* app.js or part_000 at rest after a search that rendered its model and an
\* export that failed: the export's error is showing, the indicator is not
C14_Witness ==
    /\ SteadyState
    /\ currentModel # Null
    /\ "render" \in Range(lastLog)
    /\ ~errorHidden
    /\ errorText = <<ExportFailedMsg>>
    /\ loadingHidden

----------------------------------------------------------------------------
(* C15 *)

\* the response body the held model (or held model id) came from
heldData == CHOOSE m \in Models : m.model_id = currentModel.model_id

\* the table has one row per projection, in the order of the projections
TableRowsOf(projections) ==
    /\ Len(tableRows) = Len(projections)
    /\ \A k \in DOMAIN tableRows :
          /\ cellValue(tableRows[k].month) = projections[k].month
          /\ cellValue(tableRows[k].total_revenue) = projections[k].total_revenue

\* C15: after any sequence of fetches that returned a model, the table has
\* exactly N rows, in monthly_projections order, N being the number of
\* projections of the model now held (rows of earlier renders are gone), and
\* a fetch that returns the model already held and rendered leaves the rows
\* as they are.
C15_TableHasNRows ==
    /\ [](currentModel # Null => TableRowsOf(heldData.monthly_projections))
    /\ [][\A i \in 1..MaxInFlight, data \in Models :
            (/\ BodyDecoded(i, data)
             /\ currentModel # Null
             /\ currentModel.model_id = data.model_id
             /\ TableRowsOf(data.monthly_projections)) =>
                tableRows' = tableRows]_vars

----------------------------------------------------------------------------
(* C16 *)

\* the projection field a table column of the variant is read from
columnField(v, column) ==
    IF column = "large_customers"
    THEN (IF v = "script" THEN "large_customers_acquired"
          ELSE "large_customers_cumulative")
    ELSE IF column = "small_customers"
    THEN (IF v = "script" THEN "small_customers_acquired"
          ELSE "small_customers_cumulative")
    ELSE IF column = "large_revenue" THEN "large_customer_revenue"
    ELSE IF column = "small_revenue" THEN "small_customer_revenue"
    ELSE column

\* the number a cell prints ("2 people" leads with it, the others end with it)
cellNumber(column, cell) ==
    IF column = "sales_people" THEN cell[1] ELSE cell[Len(cell)]

\* C16: a projection with absent or null numeric fields renders without an
\* error, and every cell of a numeric field shows a number, the formatted
\* zero when its field is absent: no cell shows "undefined" or "NaN".
C16_AbsentFieldsShowZero ==
    [][\A i \in 1..MaxInFlight, data \in PartialModels :
          BodyDecoded(i, data) =>
              /\ "error" \notin Range(lastLog')
              /\ Len(tableRows') = 1
              /\ \A column \in DOMAIN tableRows'[1] \ {"month"} :
                    LET n == cellNumber(column, tableRows'[1][column])
                        field == columnField(variant, column)
                    IN  /\ n \notin {Absent, NaN}
                        /\ Get(data.monthly_projections[1], field) = Absent
                              => n = 0]_vars

----------------------------------------------------------------------------
(* C17 *)

\* C17: in app.js, after a model whose assumptions_used mapping has k keys
\* is rendered, the assumptions view holds exactly k cards, one per key in
\* iteration order, and holds the "no data" placeholder only when the
\* mapping is empty.
C17_OneCardPerAssumption ==
    [][\A i \in 1..MaxInFlight, data \in Models :
          (variant = "app" /\ BodyDecoded(i, data)) =>
              IF Len(data.assumptions_used) = 0
              THEN assumptionCards' = Placeholder("No assumptions available")
              ELSE /\ Len(assumptionCards') = Len(data.assumptions_used)
                   /\ \A k \in DOMAIN assumptionCards' :
                         /\ "placeholder" \notin DOMAIN assumptionCards'[k]
                         /\ assumptionCards'[k].h4 =
                               formatText(data.assumptions_used[k].key)]_vars

----------------------------------------------------------------------------
(* C18 *)

\* C18: in app.js the loading indicator is showing in every state in which a
\* search call or an export call is in flight; a call that returns while
\* another is pending leaves the indicator showing.
C18_LoadingWhileAnyInFlight ==
    (variant = "app" /\ ~SteadyState) => ~loadingHidden

----------------------------------------------------------------------------
(* C19 *)

\* a search call that was in flight when the page was reset gets its data
StaleResponseStep ==
    \E i \in 1..MaxInFlight, data \in Models :
        /\ requests[i] # Idle
        /\ requests[i].resetSeen
        /\ BodyDecoded(i, data)

\* a search call submitted since the last reset gets its data
FreshResponseStep ==
    \E i \in 1..MaxInFlight, data \in Models :
        /\ requests[i] # Idle
        /\ ~requests[i].resetSeen
        /\ BodyDecoded(i, data)

\* C19: in app.js and part_000, once no model is held and the results are
\* hidden (as resetUI leaves them), both stay so until a call submitted
\* after the reset gets its data: the response of a call that was in flight
\* when resetUI ran does not bring a model or the results back.
C19_StaleResponseAfterReset ==
    [][(variant # "script" /\ currentModel = Null /\ resultsHidden) =>
          /\ ~FreshResponseStep => (currentModel' = Null /\ resultsHidden')
          /\ StaleResponseStep => (currentModel' = Null /\ resultsHidden')]_vars

----------------------------------------------------------------------------
(* C20 *)

\* the driver cards are those of the drivers, in their order
DriverCardsOf(drivers) ==
    IF Len(drivers) = 0
    THEN driversCards \in {<<>>, Placeholder("No revenue drivers available")}
    ELSE /\ Len(driversCards) = Len(drivers)
         /\ \A k \in DOMAIN driversCards :
               /\ "placeholder" \notin DOMAIN driversCards[k]
               /\ driversCards[k].h4[2] = drivers[k].name

\* the id an export started now would request
exportKey == currentModel.model_id

\* C20: whenever the results section is visible a model is held, and the
\* model id, the table and the driver cards on screen are those of the held
\* model, the one an export would request; the held model and the results
\* on screen change in the same steps.
C20_VisibleResultsAreHeldModel ==
    /\ [](~resultsHidden =>
            /\ currentModel # Null
            /\ modelIdText # Null
            /\ modelIdText[1] = exportKey[1]
            /\ ShowsResultsOf(heldData)
            /\ DriverCardsOf(heldData.revenue_drivers))
    /\ [][currentModel' # currentModel =>
            <<modelIdText, timeHorizon, tableRows, resultsHidden>>'
                # <<modelIdText, timeHorizon, tableRows, resultsHidden>>]_vars

====
